---------------------------- MODULE Spec2Model ----------------------------
(***************************************************************************)
(* Model of paging-calculator: the index calculator                        *)
(* (src/page_table_index.rs), the architecture catalog and its driver      *)
(* (src/paging_info.rs), the address width tag (src/addr_width.rs), the    *)
(* address type (src/cli.rs), the output (src/print.rs) and the mask       *)
(* construction of the older src/main.rs.                                  *)
(*                                                                         *)
(* Representation.  A u64 that is used as a bit vector (an address, a      *)
(* mask, an index, the relevant part of an address) is the set of the      *)
(* positions of its one bits, a subset of 0..63: the values do not fit     *)
(* the integers of the model checker, and the code treats them bit-wise.   *)
(* A u64 that is used as a count (index_bits, page_offset_bits, level,     *)
(* shift, levels, entry size) is a natural number; the bounds below keep   *)
(* index_bits * (level - 1) + page_offset_bits far below 2^64, so the      *)
(* multiplication and the addition of line 86 never overflow here.         *)
(***************************************************************************)
EXTENDS Naturals, Sequences, FiniteSets

VARIABLES
    overflow_checks,   \* build profile: TRUE = overflow checks on (debug)
    pc,                \* position of the program
    arch,              \* cli::Architecture chosen on the command line
    v_addr,            \* cli::VirtualAddress given on the command line
    paging_impl_info,  \* descriptor returned by PagingImplInfo::from_arch
    level,             \* local `level` of calc_page_table_lookup_meta_info
    level_info_vec,    \* local `level_info_vec` of the same function
    args,              \* arguments of a direct calculate_page_table_index call
    result,            \* what that call produced
    calls,             \* levels the lookup has called the calculator with
    mask,              \* a direct call of num_to_bitmask and its outcome
    conv,              \* a VirtualAddress conversion and its outcomes
    parsed,            \* a call of VirtualAddress::from_str and its outcome
    legacy,            \* a call of the calculator of main.rs and its outcome
    out,               \* what print has written so far
    use_ansi,          \* print::USE_ANSI
    other              \* a second thread running a lookup

\* The build and the process-wide flag.
envVars == <<overflow_checks, use_ansi>>

\* The locals of print and of calc_page_table_lookup_meta_info.
lookupVars ==
    <<arch, v_addr, paging_impl_info, level, level_info_vec, calls>>

\* The direct calls of single functions.
callVars == <<args, result, mask, conv, parsed, legacy>>

vars == <<pc, envVars, lookupVars, callVars, out, other>>

---------------------------------------------------------------------------
(* Bounds of the model.                                                    *)

\* Largest index_bits passed to a direct call of the calculator.
MaxIndexBits == 10

\* Largest page_offset_bits passed to a direct call of the calculator.
MaxPageOffsetBits == 12

\* Largest level passed to a direct call of the calculator.
MaxLevel == 7

\* Largest number of ones asked of num_to_bitmask.
MaxMaskBits == 66

\* Longest of the address texts made of every combination of characters.
MaxStrLen == 4

---------------------------------------------------------------------------
(* 64-bit vectors.                                                         *)

\* Width of u64.
U64Bits == 64

\* Width of u32.
U32Bits == 32

BitPositions == 0 .. (U64Bits - 1)

\* u32::MAX as u64: the low 32 bits set.
U32_MAX == 0 .. (U32Bits - 1)

\* Shr shifting one position too far.
Shr_one_too_far(x, s) == {b - (s + 1) : b \in {c \in x : c >= s + 1}}

\* x >> s for a shift distance below the width.
Shr(x, s) == {b - s : b \in {c \in x : c >= s}}

\* x << s moving the bits one position less.
Shl_one_short(x, s) == {b + s - 1 : b \in {c \in x : c + s - 1 < U64Bits}}

\* x << s for a shift distance below the width; bits shifted out are lost.
Shl(x, s) == {b + s : b \in {c \in x : c + s < U64Bits}}

\* x & y
BitAnd(x, y) == x \cap y

\* x | y
BitOr(x, y) == x \cup y

\* The binary literal whose digits are ds, most significant digit first.
FromBin(ds) == {Len(ds) - i : i \in {j \in 1 .. Len(ds) : ds[j] = 1}}

RECURSIVE Pow2(_)
Pow2(n) == IF n = 0 THEN 1 ELSE 2 * Pow2(n - 1)

RECURSIVE ToNat(_)
\* The number a bit vector denotes (for vectors below 2^31).
ToNat(x) ==
    IF x = {} THEN 0
    ELSE LET b == CHOOSE c \in x : TRUE
         IN  Pow2(b) + ToNat(x \ {b})

---------------------------------------------------------------------------
(* src/addr_width.rs                                                       *)

AddrWidth == {"Bits32", "Bits64"}

\* impl From<AddrWidth> for u64
AddrWidthBits(value) == IF value = "Bits32" THEN 32 ELSE 64

---------------------------------------------------------------------------
(* src/page_table_index.rs                                                 *)

\* A computation that returned v.
Ok(v) == [panicked |-> FALSE, val |-> v]

\* A computation that panicked with message m.
Panic(m) == [panicked |-> TRUE, msg |-> m]

\* struct PageTableLookupMetaInfo
PageTableLookupMetaInfo(a, l, i, s, r) ==
    [v_addr |-> a, level |-> l, index |-> i, shift |-> s,
     relevant_part_of_addr |-> r]

\* create_mask with one bit too many.
create_mask_one_more(bits) == {b \in BitPositions : b <= bits}

\* bit_ops::bitops_u64::create_mask as called on line 90: `bits` low ones.
create_mask(bits) == {b \in BitPositions : b < bits}

\* calculate_page_table_index with the shift of the next level.
calculate_page_table_index_shift_next(index_bits, page_offset_bits, addr_in, lvl, addr_width, checks) ==
    IF ~(index_bits > 0) THEN Panic("assertion failed: index_bits > 0")
    ELSE IF ~(page_offset_bits > 0)
    THEN Panic("assertion failed: page_offset_bits > 0")
    ELSE IF ~(lvl > 0) THEN Panic("assertion failed: level > 0")
    ELSE
    LET addr == IF addr_width = "Bits32" THEN BitAnd(addr_in, U32_MAX)
                ELSE addr_in
        shift == index_bits * lvl + page_offset_bits
    IN  IF checks /\ shift >= U64Bits
        THEN Panic("attempt to shift right with overflow")
        ELSE
        LET dist == shift % U64Bits
            bitmask == {b \in BitPositions : b < index_bits}
            index == BitAnd({b - dist : b \in {c \in addr : c >= dist}},
                            bitmask)
            relevant_part_of_addr ==
                BitAnd(addr, {b + dist : b \in
                                 {c \in bitmask : c + dist < U64Bits}})
        IN  Ok(PageTableLookupMetaInfo(addr_in, lvl, index, shift,
                                       relevant_part_of_addr))

\* calculate_page_table_index without the clamp to the address width.
calculate_page_table_index_no_clamp(index_bits, page_offset_bits, addr_in, lvl, addr_width, checks) ==
    IF ~(index_bits > 0) THEN Panic("assertion failed: index_bits > 0")
    ELSE IF ~(page_offset_bits > 0)
    THEN Panic("assertion failed: page_offset_bits > 0")
    ELSE IF ~(lvl > 0) THEN Panic("assertion failed: level > 0")
    ELSE
    LET addr == addr_in
        shift == index_bits * (lvl - 1) + page_offset_bits
    IN  IF checks /\ shift >= U64Bits
        THEN Panic("attempt to shift right with overflow")
        ELSE
        LET dist == shift % U64Bits
            bitmask == {b \in BitPositions : b < index_bits}
            index == BitAnd({b - dist : b \in {c \in addr : c >= dist}},
                            bitmask)
            relevant_part_of_addr ==
                BitAnd(addr, {b + dist : b \in
                                 {c \in bitmask : c + dist < U64Bits}})
        IN  Ok(PageTableLookupMetaInfo(addr_in, lvl, index, shift,
                                       relevant_part_of_addr))

\* calculate_page_table_index storing the clamped address in the result.
calculate_page_table_index_stores_clamped(index_bits, page_offset_bits, addr_in, lvl, addr_width, checks) ==
    calculate_page_table_index_no_clamp(index_bits, page_offset_bits,
        IF addr_width = "Bits32" THEN BitAnd(addr_in, U32_MAX) ELSE addr_in,
        lvl, addr_width, checks)

\* calculate_page_table_index that replaces a zero argument by one instead
\* of asserting.
calculate_page_table_index_defaulting(index_bits, page_offset_bits, addr_in, lvl, addr_width, checks) ==
    LET ib == IF index_bits = 0 THEN 1 ELSE index_bits
        pob == IF page_offset_bits = 0 THEN 1 ELSE page_offset_bits
        l == IF lvl = 0 THEN 1 ELSE lvl
        addr == IF addr_width = "Bits32" THEN BitAnd(addr_in, U32_MAX)
                ELSE addr_in
        shift == ib * (l - 1) + pob
    IN  IF checks /\ shift >= U64Bits
        THEN Panic("attempt to shift right with overflow")
        ELSE
        LET dist == shift % U64Bits
            bitmask == {b \in BitPositions : b < ib}
            index == BitAnd({b - dist : b \in {c \in addr : c >= dist}},
                            bitmask)
            relevant_part_of_addr ==
                BitAnd(addr, {b + dist : b \in
                                 {c \in bitmask : c + dist < U64Bits}})
        IN  Ok(PageTableLookupMetaInfo(addr_in, l, index, shift,
                                       relevant_part_of_addr))

\* calculate_page_table_index.  checks is the build's overflow-checks
\* setting: with it a shift distance of 64 or more panics, without it the
\* distance is taken modulo 64 (both `>>` on line 88 and `<<` on line 93).
calculate_page_table_index(index_bits, page_offset_bits, addr_in, lvl, addr_width, checks) ==
    IF ~(index_bits > 0) THEN Panic("assertion failed: index_bits > 0")
    ELSE IF ~(page_offset_bits > 0)
    THEN Panic("assertion failed: page_offset_bits > 0")
    ELSE IF ~(lvl > 0) THEN Panic("assertion failed: level > 0")
    ELSE
    LET addr == IF addr_width = "Bits32" THEN BitAnd(addr_in, U32_MAX)
                ELSE addr_in
        shift == index_bits * (lvl - 1) + page_offset_bits
    IN  IF checks /\ shift >= U64Bits
        THEN Panic("attempt to shift right with overflow")
        ELSE
        LET dist == shift % U64Bits
            shifted_addr == Shr(addr, dist)
            bitmask == create_mask(index_bits)
            index == BitAnd(shifted_addr, bitmask)
            relevant_part_of_addr == BitAnd(addr, Shl(bitmask, dist))
        IN  Ok(PageTableLookupMetaInfo(addr_in, lvl, index, shift,
                                       relevant_part_of_addr))

---------------------------------------------------------------------------
(* src/paging_info.rs                                                      *)

\* struct PagingImplInfo (the description text is left out).
PagingImplInfo(n, lv, w, po, pi, es) ==
    [name |-> n, levels |-> lv, addr_width |-> w, page_offset_bits |-> po,
     page_table_index_bits |-> pi, page_table_entry_size |-> es]

\* impls::X86 with the 8-byte entries of the 64-bit modes.
X86_wide_entry ==
    [name |-> "x86 32-bit paging", levels |-> 2, addr_width |-> "Bits32",
     page_offset_bits |-> 12, page_table_index_bits |-> 10,
     page_table_entry_size |-> 8]

\* impls::X86 with the level count of the PAE entry.
X86_three_levels ==
    [name |-> "x86 32-bit paging", levels |-> 3, addr_width |-> "Bits32",
     page_offset_bits |-> 12, page_table_index_bits |-> 10,
     page_table_entry_size |-> 4]

\* impls::X86
X86 == PagingImplInfo("x86 32-bit paging", 2, "Bits32", 12, 10, 4)

\* impls::X86_PAE with 32-bit entries.
X86_PAE_small_entry ==
    [name |-> "x86 32-bit paging with PAE", levels |-> 3,
     addr_width |-> "Bits32", page_offset_bits |-> 12,
     page_table_index_bits |-> 9, page_table_entry_size |-> 4]

\* impls::X86_PAE
X86_PAE == PagingImplInfo("x86 32-bit paging with PAE", 3, "Bits32", 12, 9, 8)

\* impls::X86_64
X86_64 == PagingImplInfo("x86_64 paging", 4, "Bits64", 12, 9, 8)

\* impls::X86_64_5LEVEL
X86_64_5LEVEL ==
    PagingImplInfo("x86_64 paging (5-level)", 5, "Bits64", 12, 9, 8)

\* cli::Architecture
Architecture ==
    {[family |-> "X86", pae |-> f] : f \in BOOLEAN}
    \cup {[family |-> "X86_64", five_level |-> f] : f \in BOOLEAN}

\* from_arch that ignores the pae flag.
from_arch_ignores_pae(a) ==
    IF a.family = "X86" THEN X86
    ELSE IF a.family = "X86_64" /\ a.five_level = FALSE THEN X86_64
    ELSE X86_64_5LEVEL

\* PagingImplInfo::from_arch
from_arch(a) ==
    IF a.family = "X86" /\ a.pae = FALSE THEN X86
    ELSE IF a.family = "X86" /\ a.pae = TRUE THEN X86_PAE
    ELSE IF a.family = "X86_64" /\ a.five_level = FALSE THEN X86_64
    ELSE X86_64_5LEVEL

\* The loop body calling the calculator before the level is incremented.
LoopBody_level_from_zero(self, a, lvl, vec, checks) ==
    LET info == calculate_page_table_index(self.page_table_index_bits,
                    self.page_offset_bits, a, lvl, self.addr_width, checks)
    IN  IF info.panicked THEN info
        ELSE Ok([level |-> lvl + 1, vec |-> Append(vec, info.val)])

\* The loop body consulting the USE_ANSI flag for the order of the vector.
LoopBody_reads_flag(self, a, lvl, vec, checks) ==
    LET next_level == lvl + 1
        info == calculate_page_table_index(self.page_table_index_bits,
                    self.page_offset_bits, a, next_level, self.addr_width,
                    checks)
    IN  IF info.panicked THEN info
        ELSE Ok([level |-> next_level,
                 vec |-> IF use_ansi THEN <<info.val>> \o vec
                         ELSE Append(vec, info.val)])

\* The loop body advancing the level by two.
LoopBody_two_levels(self, a, lvl, vec, checks) ==
    LET next_level == lvl + 2
        info == calculate_page_table_index(self.page_table_index_bits,
                    self.page_offset_bits, a, next_level, self.addr_width,
                    checks)
    IN  IF info.panicked THEN info
        ELSE Ok([level |-> next_level, vec |-> Append(vec, info.val)])

\* The loop body with the new element put in front of the vector.
LoopBody_push_front(self, a, lvl, vec, checks) ==
    LET next_level == lvl + 1
        info == calculate_page_table_index(self.page_table_index_bits,
                    self.page_offset_bits, a, next_level, self.addr_width,
                    checks)
    IN  IF info.panicked THEN info
        ELSE Ok([level |-> next_level, vec |-> <<info.val>> \o vec])

\* One pass through the body of the while loop of
\* calc_page_table_lookup_meta_info: the new <<level, level_info_vec>>, or
\* the panic of the calculator.
LoopBody(self, a, lvl, vec, checks) ==
    LET next_level == lvl + 1
        info == calculate_page_table_index(self.page_table_index_bits,
                    self.page_offset_bits, a, next_level, self.addr_width,
                    checks)
    IN  IF info.panicked THEN info
        ELSE Ok([level |-> next_level, vec |-> Append(vec, info.val)])

RECURSIVE LoopFrom(_, _, _, _, _)
LoopFrom(self, a, lvl, vec, checks) ==
    IF lvl < self.levels
    THEN LET r == LoopBody(self, a, lvl, vec, checks)
         IN  IF r.panicked THEN r
             ELSE LoopFrom(self, a, r.val.level, r.val.vec, checks)
    ELSE Ok(vec)

\* PagingImplInfo::calc_page_table_lookup_meta_info, as a function.
calc_page_table_lookup_meta_info(self, a, checks) ==
    LoopFrom(self, a, 0, <<>>, checks)

---------------------------------------------------------------------------
(* src/main.rs                                                             *)

\* Largest value num_to_bitmask accepts (`assert!(val < 65)`).
MaskBitsLimit == 64

RECURSIVE MaskLoop(_, _)
\* The while loop of num_to_bitmask: shift in one more 1 bit per round.
\* bitmask is a u64 in every round (`let mut bitmask = 0_u64`).
MaskLoop(val, bitmask) ==
    IF bitmask \subseteq BitPositions /\ val > 0
    THEN MaskLoop(val - 1, BitOr(Shl(bitmask, 1), {0}))
    ELSE bitmask

\* num_to_bitmask written as the single shift (1 << val) - 1, whose
\* distance 64 is taken modulo 64.
num_to_bitmask_single_shift(val) ==
    IF ~(val <= MaskBitsLimit)
    THEN Panic("The value must be between 0..=64")
    ELSE Ok({b \in BitPositions : b < val % U64Bits})

\* num_to_bitmask
num_to_bitmask(val) ==
    IF ~(val <= MaskBitsLimit)
    THEN Panic("The value must be between 0..=64")
    ELSE Ok(MaskLoop(val, {}))

\* The legacy calculate_page_table_index with the shift of the level above.
main_calculate_page_table_index_level_above(INDEX_BITS, PAGE_OFFSET_BITS, addr, lvl, checks) ==
    IF ~(lvl > 0)
    THEN Panic("level must be 1 or more. level 0 means the page itself.")
    ELSE LET shift == INDEX_BITS * lvl + PAGE_OFFSET_BITS
         IN  IF checks /\ shift >= U64Bits
             THEN Panic("attempt to shift right with overflow")
             ELSE LET dist == shift % U64Bits
                      bitmask == {b \in BitPositions : b < INDEX_BITS}
                  IN  Ok(<<BitAnd(Shr(addr, dist), bitmask),
                           BitAnd(addr, Shl(bitmask, dist)), shift>>)

\* calculate_page_table_index::<INDEX_BITS, PAGE_OFFSET_BITS> of main.rs:
\* the tuple (index, relevant_part_of_addr, shift), or the panic of the
\* assertion, of a shift by 64 or more with overflow checks, or of
\* num_to_bitmask.
main_calculate_page_table_index(INDEX_BITS, PAGE_OFFSET_BITS, addr, lvl, checks) ==
    IF ~(lvl > 0)
    THEN Panic("level must be 1 or more. level 0 means the page itself.")
    ELSE LET shift == INDEX_BITS * (lvl - 1) + PAGE_OFFSET_BITS
         IN  IF checks /\ shift >= U64Bits
             THEN Panic("attempt to shift right with overflow")
             ELSE LET dist == shift % U64Bits
                      shifted_addr == Shr(addr, dist)
                      bitmask == num_to_bitmask(INDEX_BITS)
                  IN  IF bitmask.panicked THEN bitmask
                      ELSE LET index == BitAnd(shifted_addr, bitmask.val)
                               relevant_part_of_addr ==
                                   BitAnd(addr, Shl(bitmask.val, dist))
                           IN  Ok(<<index, relevant_part_of_addr, shift>>)

---------------------------------------------------------------------------
(* src/cli.rs                                                              *)

\* struct VirtualAddress(u64): a tuple struct with one field.
VirtualAddress(value) == <<value>>

\* impl From<u64> for VirtualAddress
VirtualAddress_from_u64(value) == VirtualAddress(value)

\* impl From<VirtualAddress> for u64
u64_from_VirtualAddress(value) == value[1]

\* The cast `as u32` of a u64: the bits 32 and above are dropped.
AsU32(x) == {b \in x : b < U32Bits}

\* impl From<VirtualAddress> for u32 taking the upper half.
u32_from_VirtualAddress_upper_half(value) == AsU32(Shr(value[1], U32Bits))

\* impl From<VirtualAddress> for u32
u32_from_VirtualAddress(value) == AsU32(BitAnd(value[1], U32_MAX))

\* u64::from(u32): the same bits, zeroes above.
u64_from_u32(x) == x

\* Result<VirtualAddress, VirtualAddressError> and Result<u64, ParseIntError>.
ResultOk(v) == [is_ok |-> TRUE, val |-> v]
ResultErr(e) == [is_ok |-> FALSE, err |-> e]

\* VirtualAddress::PREFIX.  A string is the sequence of its characters.
PREFIX == <<"0", "x">>

\* The characters with the Unicode property White_Space that a string of
\* this module can hold: the blank, tab, line feed, carriage return and
\* form feed, the vertical tab, U+0085, U+00A0 and U+1680.  (The others,
\* U+2000 to U+200A, U+2028, U+2029, U+202F, U+205F and U+3000, are
\* whitespace of the code as well.)
WhiteSpace ==
    {" ", "\t", "\n", "\r", "\f", "", "", " ", " "}

\* char::is_whitespace
is_whitespace(c) == c \in WhiteSpace

RECURSIVE trim_start(_)
trim_start(s) ==
    IF s # <<>> /\ is_whitespace(Head(s)) THEN trim_start(Tail(s)) ELSE s

RECURSIVE trim_end(_)
trim_end(s) ==
    IF s # <<>> /\ is_whitespace(s[Len(s)])
    THEN trim_end(SubSeq(s, 1, Len(s) - 1))
    ELSE s

\* str::trim
trim(s) == trim_end(trim_start(s))

\* The upper-case and lower-case letters of ASCII, in the same order.
UpperCase ==
    <<"A", "B", "C", "D", "E", "F", "G", "H", "I", "J", "K", "L", "M",
      "N", "O", "P", "Q", "R", "S", "T", "U", "V", "W", "X", "Y", "Z">>
LowerCase ==
    <<"a", "b", "c", "d", "e", "f", "g", "h", "i", "j", "k", "l", "m",
      "n", "o", "p", "q", "r", "s", "t", "u", "v", "w", "x", "y", "z">>

\* char::to_lowercase for the characters of ASCII: an upper-case letter
\* gives its lower-case letter, any other character itself.  (Letters
\* outside ASCII are not modelled; none of them has a hexadecimal digit or
\* a character of the prefix as its lower-case form.)
LowerChar(c) ==
    IF \E i \in 1 .. Len(UpperCase) : UpperCase[i] = c
    THEN LowerCase[CHOOSE i \in 1 .. Len(UpperCase) : UpperCase[i] = c]
    ELSE c

\* str::to_lowercase
to_lowercase(s) == [i \in 1 .. Len(s) |-> LowerChar(s[i])]

\* The character replace removes.
IsUnderscore(c) == c = "_"
NotUnderscore(c) == ~IsUnderscore(c)

\* str::replace('_', "")
replace_underscores(s) == SelectSeq(s, NotUnderscore)

\* str::starts_with
starts_with(s, prefix) ==
    Len(s) >= Len(prefix) /\ SubSeq(s, 1, Len(prefix)) = prefix

\* char::to_digit(16): the value of a hexadecimal digit, 16 for any other
\* character.
to_digit(c) ==
    CASE c = "0" -> 0 [] c = "1" -> 1 [] c = "2" -> 2 [] c = "3" -> 3
      [] c = "4" -> 4 [] c = "5" -> 5 [] c = "6" -> 6 [] c = "7" -> 7
      [] c = "8" -> 8 [] c = "9" -> 9
      [] c \in {"a", "A"} -> 10 [] c \in {"b", "B"} -> 11
      [] c \in {"c", "C"} -> 12 [] c \in {"d", "D"} -> 13
      [] c \in {"e", "E"} -> 14 [] c \in {"f", "F"} -> 15
      [] OTHER -> 16

\* The u64 of a digit value.
DigitBits(d) == {b \in 0 .. 3 : (d \div Pow2(b)) % 2 = 1}

RECURSIVE RadixLoop(_, _)
\* The digit loop of u64::from_str_radix(_, 16): result * 16 + digit with
\* checked arithmetic; the digit is looked at before the overflow of the
\* multiplication is reported.
RadixLoop(digits, acc) ==
    IF ~(acc \subseteq BitPositions) \/ digits = <<>> THEN ResultOk(acc)
    ELSE IF to_digit(Head(digits)) = 16 THEN ResultErr("InvalidDigit")
    ELSE IF \E b \in acc : b + 4 >= U64Bits THEN ResultErr("PosOverflow")
    ELSE RadixLoop(Tail(digits),
                   BitOr(Shl(acc, 4), DigitBits(to_digit(Head(digits)))))

\* u64::from_str_radix(src, 16): an empty string and a lone sign are
\* errors, one leading "+" is skipped, "-" is no digit of an unsigned type.
from_str_radix(src) ==
    IF src = <<>> THEN ResultErr("Empty")
    ELSE IF Len(src) = 1 /\ Head(src) \in {"+", "-"}
    THEN ResultErr("InvalidDigit")
    ELSE IF Head(src) = "+" THEN RadixLoop(Tail(src), {})
    ELSE RadixLoop(src, {})

\* impl FromStr for VirtualAddress.  The ParseIntError is also written to
\* stderr before it is replaced.
from_str(s) ==
    LET s_clean == replace_underscores(to_lowercase(trim(s)))
    IN  IF ~starts_with(s_clean, PREFIX) THEN ResultErr("MissingPrefix")
        ELSE
        LET s_without_prefix ==
                SubSeq(s_clean, Len(PREFIX) + 1, Len(s_clean))
            parsed_u64 == from_str_radix(s_without_prefix)
        IN  IF parsed_u64.is_ok
            THEN ResultOk(VirtualAddress(parsed_u64.val))
            ELSE ResultErr("ParseIntError")

---------------------------------------------------------------------------
(* src/print.rs                                                            *)

\* ansi_styles::paint_highlight: red and bold if USE_ANSI is set.
paint_highlight(str) ==
    [text |-> str, style |-> IF use_ansi THEN "red bold" ELSE "plain"]

\* ansi_styles::paint_heading: bold if USE_ANSI is set.
paint_heading(str) ==
    [text |-> str, style |-> IF use_ansi THEN "bold" ELSE "plain"]

\* ansi_styles::paint_hint: light gray if USE_ANSI is set.
paint_hint(str) ==
    [text |-> str, style |-> IF use_ansi THEN "light gray" ELSE "plain"]

\* Number of binary digits of the 64-bit value x (1 for zero).
BinLen(x) ==
    IF x = {} THEN 1
    ELSE 1 + CHOOSE b \in x : \A c \in x : c <= b

\* The format {:0bits$b}: the binary digits of x, highest first, filled
\* with zeroes on the left up to `bits` digits.
FormatBin(x, bits) ==
    LET n == IF BinLen(x) > bits THEN BinLen(x) ELSE bits
    IN  [i \in 1 .. n |-> IF (n - i) \in x THEN 1 ELSE 0]

RECURSIVE HexLen(_)
\* Number of hexadecimal digits of the number n (1 for zero).
HexLen(n) == IF n < 16 THEN 1 ELSE 1 + HexLen(n \div 16)

RECURSIVE Pow16(_)
Pow16(k) == IF k = 0 THEN 1 ELSE 16 * Pow16(k - 1)

\* The format {:04x}: the hexadecimal digits of n, highest first, filled
\* with zeroes on the left up to four digits.
FormatHex04(n) ==
    LET len == IF HexLen(n) > 4 THEN HexLen(n) ELSE 4
    IN  [i \in 1 .. len |-> (n \div Pow16(len - i)) % 16]

\* print_header without the description: the heading and the two address
\* lines, truncated to 32 bits for a 32-bit descriptor.
print_header(paging_info, a) ==
    IF paging_info.addr_width = "Bits32"
    THEN <<[line |-> "heading", text |-> paint_heading(paging_info.name)],
           [line |-> "address", value |-> BitAnd(a, U32_MAX),
            info |-> paint_hint("(user input truncated to 32-bit)")],
           [line |-> "address (bits)",
            digits |-> FormatBin(BitAnd(a, U32_MAX), U32Bits)]>>
    ELSE <<[line |-> "heading", text |-> paint_heading(paging_info.name)],
           [line |-> "address", value |-> a],
           [line |-> "address (bits)", digits |-> FormatBin(a, U64Bits)]>>

\* print_relevant_bits_highlighted that always highlights index_bits
\* digits.
print_relevant_bits_highlighted_no_clamp(info, paging_info, checks) ==
    LET addr_width == AddrWidthBits(paging_info.addr_width)
        zeroes_fill_right_count ==
            paging_info.page_offset_bits
                + (info.level - 1) * paging_info.page_table_index_bits
    IN  Ok([line |-> "bits", level |-> info.level,
            zeroes_left_fill |->
                addr_width - zeroes_fill_right_count
                    - paging_info.page_table_index_bits,
            highlighted_index |->
                paint_highlight(FormatBin(info.index,
                    paging_info.page_table_index_bits)),
            zeroes_right_fill |-> zeroes_fill_right_count])

\* print_relevant_bits_highlighted: the three parts of the binary string.
\* `addr_width - zeroes_fill_right_count` is a u64 subtraction: below zero
\* it panics with overflow checks; without them it wraps to nearly 2^64
\* and becomes the highlight count, zeroes_fill_left_count wraps back to 0,
\* and the format {index:0bits$b} panics on a width of that size before
\* anything is printed.
print_relevant_bits_highlighted(info, paging_info, checks) ==
    LET addr_width == AddrWidthBits(paging_info.addr_width)
        zeroes_fill_right_count ==
            paging_info.page_offset_bits
                + (info.level - 1) * paging_info.page_table_index_bits
    IN  IF zeroes_fill_right_count > addr_width
        THEN IF checks THEN Panic("attempt to subtract with overflow")
             ELSE Panic("Formatting argument out of range")
        ELSE
        LET page_index_highlight_bits_count ==
                IF zeroes_fill_right_count + paging_info.page_table_index_bits
                       > addr_width
                THEN addr_width - zeroes_fill_right_count
                ELSE paging_info.page_table_index_bits
            zeroes_fill_left_count ==
                addr_width - zeroes_fill_right_count
                    - page_index_highlight_bits_count
        IN  Ok([line |-> "bits", level |-> info.level,
                zeroes_left_fill |-> zeroes_fill_left_count,
                highlighted_index |->
                    paint_highlight(FormatBin(info.index,
                        page_index_highlight_bits_count)),
                zeroes_right_fill |-> zeroes_fill_right_count])

\* iter() without rev(): the vector from its first element to its last.
Rev_forward(vec) == vec

\* iter().rev(): the vector from its last element to its first.
Rev(vec) == [i \in 1 .. Len(vec) |-> vec[Len(vec) + 1 - i]]

\* The first loop of print (lines 69-73): one bits line per element, or
\* the panic of a line.
BitsLines(vec, paging_info, checks) ==
    [i \in 1 .. Len(vec) |->
        print_relevant_bits_highlighted(Rev(vec)[i], paging_info, checks)]

\* The lines of the second loop of print for one element (lines 81-98);
\* the hints go to the first element of the loop only.
EntryLines(is_first, info, paging_info) ==
    <<[line |-> "entry index", level |-> info.level,
       index |-> ToNat(info.index),
       info |-> IF is_first THEN <<paint_hint("(number of entry)")>>
                ELSE <<>>],
      [line |-> "entry offset", level |-> info.level,
       digits |-> FormatHex04(ToNat(info.index)
                                  * paging_info.page_table_entry_size),
       info |-> IF is_first
                THEN <<paint_hint("(offset into the page table for that entry)")>>
                ELSE <<>>]>>

RECURSIVE EntryLoop(_, _, _)
\* The second loop of print (lines 75-99) from position i of the reversed
\* vector on.
EntryLoop(i, vec, paging_info) ==
    IF i > Len(vec) THEN <<>>
    ELSE EntryLines(i = 1, Rev(vec)[i], paging_info)
             \o EntryLoop(i + 1, vec, paging_info)

---------------------------------------------------------------------------
(* Inputs.                                                                 *)

\* 0b1111111111_1010101010_001111000011 (tests, x86)
AddrX86 ==
    FromBin(<<1,1,1,1,1,1,1,1,1,1, 1,0,1,0,1,0,1,0,1,0,
              0,0,1,1,1,1,0,0,0,0,1,1>>)

\* 0b10_111111111_010101010_001111000011 (tests, x86 with PAE)
AddrX86Pae ==
    FromBin(<<1,0, 1,1,1,1,1,1,1,1,1, 0,1,0,1,0,1,0,1,0,
              0,0,1,1,1,1,0,0,0,0,1,1>>)

\* 0b000100000_000011111_111111111_010101010_001111000011 (tests, x86_64)
AddrX86_64 ==
    FromBin(<<0,0,0,1,0,0,0,0,0, 0,0,0,0,1,1,1,1,1, 1,1,1,1,1,1,1,1,1,
              0,1,0,1,0,1,0,1,0, 0,0,1,1,1,1,0,0,0,0,1,1>>)

\* 0b011101110_000100000_000011111_111111111_010101010_001111000011
\* (tests, x86_64 with 5 levels)
AddrX86_64_5Level ==
    FromBin(<<0,1,1,1,0,1,1,1,0, 0,0,0,1,0,0,0,0,0, 0,0,0,0,1,1,1,1,1,
              1,1,1,1,1,1,1,1,1, 0,1,0,1,0,1,0,1,0,
              0,0,1,1,1,1,0,0,0,0,1,1>>)

\* 0xdead_beef_1337_1337 (tests of cli.rs)
AddrDeadBeef ==
    FromBin(<<1,1,0,1, 1,1,1,0, 1,0,1,0, 1,1,0,1,
              1,0,1,1, 1,1,1,0, 1,1,1,0, 1,1,1,1,
              0,0,0,1, 0,0,1,1, 0,0,1,1, 0,1,1,1,
              0,0,0,1, 0,0,1,1, 0,0,1,1, 0,1,1,1>>)

\* The addresses the model runs on: the addresses of the tests, the same
\* with other upper halves, and the extremes.
Addrs ==
    {AddrX86, AddrX86Pae, AddrX86_64, AddrX86_64_5Level, AddrDeadBeef,
     {}, BitPositions,
     AddrX86 \cup Shl(AddrX86Pae, U32Bits),
     AddrX86Pae \cup Shl(AddrDeadBeef, U32Bits),
     BitAnd(AddrDeadBeef, U32_MAX),
     BitPositions \ U32_MAX,
     {U64Bits - 1}}

\* The addresses given on the command line: the same, every address with a
\* single one bit and every address with a single zero bit.
CommandLineAddrs ==
    Addrs \cup {{b} : b \in BitPositions}
          \cup {BitPositions \ {b} : b \in BitPositions}

\* Characters of the short command-line texts: a blank, the underscore,
\* digits and the prefix letter in both cases, a sign and a letter that is
\* no hexadecimal digit.
Chars == {" ", "_", "0", "1", "x", "X", "f", "F", "+", "g"}

\* Every text of up to MaxStrLen of these characters.
ShortStrings == UNION {[1 .. n -> Chars] : n \in 0 .. MaxStrLen}

\* The texts of the tests of cli.rs, texts of 16 and 17 digits, and texts
\* with other whitespace than the blank and with letters that are no
\* hexadecimal digits.
LongStrings ==
    {<<"0", "x", "1", "2", "3">>,
     <<"0", "x", "d", "e", "a", "d", "_", "b", "e", "e", "f">>,
     <<" ", " ", " ", " ", "0", "x", "d", "E", "A", "d", "_", "b", "E", "E",
       "F", " ", " ", " ", " ">>,
     <<"0", "x", "d", "e", "a", "d", "_", "b", "e", "e", "f", "_",
       "1", "3", "3", "7", "_", "1", "3", "3", "7">>,
     <<"0", "X", "F", "F", "F", "F", "f", "f", "f", "f",
       "F", "F", "F", "F", "f", "f", "f", "f">>,
     <<"0", "x", "0", "0", "f", "f", "f", "f", "f", "f", "f", "f",
       "f", "f", "f", "f", "f", "f", "f", "f">>,
     <<"0", "x", "1", "0", "0", "0", "0", "0", "0", "0", "0",
       "0", "0", "0", "0", "0", "0", "0", "0">>,
     <<"0", "x", "1", "_", "0", "0", "0", "0", "_", "0", "0", "0", "0", "_",
       "0", "0", "0", "0", "_", "0", "0", "0", "g">>,
     <<"-", "0", "x", "1">>,
     <<"0", "x", "-", "1">>,
     <<"\t", "0", "x", "1">>,
     <<"0", "x", "1", "\n">>,
     <<"0", "x", "1", "\f">>,
     <<"0", "x", "1", " ", "\t">>,
     <<"\r", "\n", "0", "x", "1", "\r", "\n">>,
     <<" ", "\t", " ", "0", "x", "1">>,
     <<"\t", "0", "x">>,
     <<" ", "0", "x", "1", "">>,
     <<"0", "x", "1", "\t", "1">>,
     <<"0", "X", "G">>,
     <<"0", "x", "A", "B", "C", "D", "E", "F", "G">>,
     <<"Z", "_", "z">>,
     <<"0", "K", "X", "1">>}

\* Texts given as the address on the command line.
CommandLineStrings == ShortStrings \cup LongStrings

IndexBitsInputs == 0 .. MaxIndexBits

\* The instantiations <INDEX_BITS, PAGE_OFFSET_BITS> of the generic
\* calculate_page_table_index of main.rs: the function is private and its
\* parameters are compile-time constants, so the program has no others.
LegacyInstantiations == {<<10, 12>>, <<9, 12>>}
PageOffsetBitsInputs == 0 .. MaxPageOffsetBits
LevelInputs == 0 .. MaxLevel
MaskBitsInputs == 0 .. MaxMaskBits

NoArgs == [called |-> FALSE]
NoInfo == [name |-> "none"]

---------------------------------------------------------------------------
(* The program.                                                            *)

Init ==
    /\ overflow_checks \in BOOLEAN
    /\ pc = "start"
    /\ arch = NoInfo
    /\ v_addr = {}
    /\ paging_impl_info = NoInfo
    /\ level = 0
    /\ level_info_vec = <<>>
    /\ args = NoArgs
    /\ result = NoArgs
    /\ calls = <<>>
    /\ mask = NoArgs
    /\ conv = NoArgs
    /\ parsed = NoArgs
    /\ legacy = NoArgs
    /\ out = <<>>
    /\ use_ansi = FALSE
    /\ other = [pc |-> "idle"]

\* A direct call of calculate_page_table_index (as the tests make it).
Calculate(ib, pob, a, l, w) ==
    /\ args' = [called |-> TRUE, index_bits |-> ib, page_offset_bits |-> pob,
                v_addr |-> a, level |-> l, addr_width |-> w]
    /\ result' = calculate_page_table_index(ib, pob, a, l, w, overflow_checks)
    /\ pc' = "called"
    /\ UNCHANGED <<envVars, lookupVars, mask, conv, parsed, legacy, out,
                   other>>

\* A direct call of num_to_bitmask (as its test makes it).
NumToBitmask(n) ==
    /\ mask' = [called |-> TRUE, val |-> n, result |-> num_to_bitmask(n)]
    /\ pc' = "masked"
    /\ UNCHANGED <<envVars, lookupVars, args, result, conv, parsed, legacy,
                   out, other>>

\* An address is wrapped into a VirtualAddress and converted back to u64
\* and to u32 (as the test of cli.rs does).
Convert(x) ==
    /\ LET v == VirtualAddress_from_u64(x)
       IN  conv' = [called |-> TRUE, value |-> x, v_addr |-> v,
                    as_u64 |-> u64_from_VirtualAddress(v),
                    as_u32 |-> u32_from_VirtualAddress(v)]
    /\ pc' = "converted"
    /\ UNCHANGED <<envVars, lookupVars, args, result, mask, parsed, legacy,
                   out, other>>

\* The address text s of the command line is parsed.
FromStr(s) ==
    /\ parsed' = [called |-> TRUE, s |-> s, result |-> from_str(s)]
    /\ pc' = "parsed"
    /\ UNCHANGED <<envVars, lookupVars, args, result, mask, conv, legacy,
                   out, other>>

\* A call of the calculator of main.rs in one of its instantiations, as
\* print_paging_info and its tests make it; the level is an argument.
LegacyCalculate(ib, pob, a, l) ==
    /\ legacy' = [called |-> TRUE, index_bits |-> ib,
                  page_offset_bits |-> pob, addr |-> a, level |-> l,
                  result |-> main_calculate_page_table_index(ib, pob, a, l,
                                 overflow_checks)]
    /\ pc' = "legacy called"
    /\ UNCHANGED <<envVars, lookupVars, args, result, mask, conv, parsed,
                   out, other>>

\* calc_page_table_lookup_meta_info is entered on descriptor D for address
\* a (paging_info.rs, lines 77-78).
EnterLookup(D, a) ==
    /\ v_addr' = a
    /\ paging_impl_info' = D
    /\ level' = 0
    /\ level_info_vec' = <<>>
    /\ calls' = <<>>
    /\ pc' = "loop"

\* print(), lines 63-67, for the command line (a, ar): the descriptor is
\* looked up, the header is printed and calc_page_table_lookup_meta_info
\* is entered.
Lookup(a, ar) ==
    /\ arch' = ar
    /\ out' = print_header(from_arch(ar), a)
    /\ EnterLookup(from_arch(ar), a)
    /\ UNCHANGED <<envVars, callVars, other>>

\* One iteration of the while loop (lines 79-89).
LoopIteration ==
    /\ pc = "loop"
    /\ level < paging_impl_info.levels
    /\ LET r == LoopBody(paging_impl_info, v_addr, level, level_info_vec,
                         overflow_checks)
       IN  IF r.panicked
           THEN /\ pc' = "panicked"
                /\ UNCHANGED <<level, level_info_vec>>
           ELSE /\ pc' = "loop"
                /\ level' = r.val.level
                /\ level_info_vec' = r.val.vec
    /\ calls' = Append(calls, level + 1)
    /\ UNCHANGED <<envVars, arch, v_addr, paging_impl_info, callVars, out,
                   other>>

\* The loop condition fails and the vector is returned (lines 79, 90).
LoopExit ==
    /\ pc = "loop"
    /\ ~(level < paging_impl_info.levels)
    /\ pc' = "returned"
    /\ UNCHANGED <<envVars, lookupVars, callVars, out, other>>

\* print(), lines 69-99: the bits lines and the entry lines, highest level
\* first.  A bits line that panics ends the program after the lines before
\* it.
PrintLevels ==
    /\ pc = "returned"
    /\ LET bits == BitsLines(level_info_vec, paging_impl_info,
                             overflow_checks)
           failed == {i \in 1 .. Len(bits) : bits[i].panicked}
       IN  IF failed # {}
           THEN /\ pc' = "panicked"
                /\ out' = out \o [i \in 1 .. Len(bits) |-> bits[i]]
           ELSE /\ pc' = "printed"
                /\ out' = out \o [i \in 1 .. Len(bits) |-> bits[i].val]
                              \o EntryLoop(1, level_info_vec, paging_impl_info)
    /\ UNCHANGED <<envVars, lookupVars, callVars, other>>

Next ==
    \/ /\ pc = "start"
       /\ \E ib \in IndexBitsInputs, pob \in PageOffsetBitsInputs,
             a \in Addrs, l \in LevelInputs, w \in AddrWidth :
               Calculate(ib, pob, a, l, w)
    \/ /\ pc = "start"
       /\ \E n \in MaskBitsInputs : NumToBitmask(n)
    \/ /\ pc = "start"
       /\ \E x \in CommandLineAddrs : Convert(x)
    \/ /\ pc = "start"
       /\ \E s \in CommandLineStrings : FromStr(s)
    \/ /\ pc = "start"
       /\ \E inst \in LegacyInstantiations, a \in CommandLineAddrs,
             l \in LevelInputs :
               LegacyCalculate(inst[1], inst[2], a, l)
    \/ /\ pc = "start"
       /\ \E a \in CommandLineAddrs, ar \in Architecture : Lookup(a, ar)
    \/ LoopIteration
    \/ LoopExit
    \/ PrintLevels

Spec == Init /\ [][Next]_vars

---------------------------------------------------------------------------
(* Two threads that each run a lookup, and the USE_ANSI flag.              *)

\* Addresses the two threads look up.
ThreadAddrs == {AddrX86_64_5Level, AddrDeadBeef, BitPositions}

\* The second thread enters from_arch and calc_page_table_lookup_meta_info
\* with its own arguments and locals.
OtherLookup(a, ar) ==
    /\ other' = [pc |-> "loop", arch |-> ar, v_addr |-> a,
                 paging_impl_info |-> from_arch(ar), level |-> 0,
                 level_info_vec |-> <<>>]
    /\ UNCHANGED <<pc, envVars, lookupVars, callVars, out>>

\* One iteration of the while loop in the second thread.
OtherLoopIteration ==
    /\ other.pc = "loop"
    /\ other.level < other.paging_impl_info.levels
    /\ LET r == LoopBody(other.paging_impl_info, other.v_addr, other.level,
                         other.level_info_vec, overflow_checks)
       IN  other' = IF r.panicked THEN [other EXCEPT !.pc = "panicked"]
                    ELSE [other EXCEPT !.level = r.val.level,
                                       !.level_info_vec = r.val.vec]
    /\ UNCHANGED <<pc, envVars, lookupVars, callVars, out>>

\* The loop condition fails in the second thread; its vector is returned.
OtherLoopExit ==
    /\ other.pc = "loop"
    /\ ~(other.level < other.paging_impl_info.levels)
    /\ other' = [other EXCEPT !.pc = "returned"]
    /\ UNCHANGED <<pc, envVars, lookupVars, callVars, out>>

\* A store to the process-wide USE_ANSI flag.
StoreUseAnsi(b) ==
    /\ use_ansi' = b
    /\ UNCHANGED <<overflow_checks, pc, lookupVars, callVars, out, other>>

\* The first thread enters from_arch and calc_page_table_lookup_meta_info.
ThreadLookup(a, ar) ==
    /\ arch' = ar
    /\ EnterLookup(from_arch(ar), a)
    /\ UNCHANGED <<envVars, callVars, out, other>>

ConcNext ==
    \/ /\ pc = "start"
       /\ \E a \in ThreadAddrs, ar \in Architecture : ThreadLookup(a, ar)
    \/ LoopIteration
    \/ LoopExit
    \/ /\ other.pc = "idle"
       /\ \E a \in ThreadAddrs, ar \in Architecture : OtherLookup(a, ar)
    \/ OtherLoopIteration
    \/ OtherLoopExit
    \/ \E b \in BOOLEAN : StoreUseAnsi(b)

ConcSpec == Init /\ [][ConcNext]_vars

---------------------------------------------------------------------------
(* calc_page_table_lookup_meta_info on any descriptor.                     *)

\* Descriptors a caller can build (the fields of PagingImplInfo are pub):
\* the catalog entries and every combination of the bounded field values,
\* zero included.
Descriptors ==
    {X86, X86_PAE, X86_64, X86_64_5LEVEL}
        \cup {PagingImplInfo("custom", lv, w, po, pi, 8) :
                 lv \in LevelInputs, w \in AddrWidth,
                 po \in PageOffsetBitsInputs, pi \in IndexBitsInputs}

\* Addresses looked up with these descriptors.
DriverAddrs == {AddrDeadBeef, BitPositions}

\* calc_page_table_lookup_meta_info is entered on descriptor D for address
\* a (lines 77-78).
LookupWith(D, a) ==
    /\ EnterLookup(D, a)
    /\ UNCHANGED <<envVars, arch, callVars, out, other>>

DriverNext ==
    \/ /\ pc = "start"
       /\ \E D \in Descriptors, a \in DriverAddrs : LookupWith(D, a)
    \/ LoopIteration
    \/ LoopExit

\* The thread that runs the loop keeps running it.
DriverSpec ==
    /\ Init
    /\ [][DriverNext]_vars
    /\ WF_vars(LoopIteration)
    /\ WF_vars(LoopExit)

---------------------------------------------------------------------------
(* Properties.                                                             *)

\* The arguments of the direct call satisfy the calculator's preconditions.
ValidArgs ==
    /\ args.called
    /\ args.index_bits > 0
    /\ args.page_offset_bits > 0
    /\ args.level >= 1

\* The direct call returned a PageTableLookupMetaInfo.
Returned == args.called /\ ~result.panicked

RECURSIVE DivMod(_, _, _)
\* (a div 2^s) mod 2^n as a number, from the binary expansion of a:
\* the sum of 2^j over the j < n with bit s + j of a set.
DivMod(a, s, n) ==
    IF n = 0 THEN 0
    ELSE DivMod(a, s, n - 1) + (IF (s + n - 1) \in a THEN Pow2(n - 1) ELSE 0)

\* a mod 2^32 for a 32-bit descriptor, a otherwise.
Clamp(a, D) == {b \in a : b < AddrWidthBits(D.addr_width)}

\* The indices of the vector, as numbers, level 1 first.
Indices(vec) == [k \in 1 .. Len(vec) |-> ToNat(vec[k].index)]

\* C1: for every shipped descriptor D and every address a, the element for
\* level k of calc_page_table_lookup_meta_info holds the index
\* (clamp(a) div 2^(page_offset_bits + (k-1)*index_bits)) mod 2^index_bits,
\* and the four addresses of the tests give the listed indices
\* (0b1010101010 = 682, 0b1111111111 = 1023, 0b010101010 = 170,
\* 0b111111111 = 511, 0b10 = 2, 0b000011111 = 31, 0b000100000 = 32,
\* 0b011101110 = 238).
C1_IndexFormula ==
    pc \in {"loop", "returned"} =>
        LET D == paging_impl_info
        IN  /\ \A k \in 1 .. Len(level_info_vec) :
                 ToNat(level_info_vec[k].index) =
                     DivMod(Clamp(v_addr, D),
                            D.page_offset_bits
                                + (k - 1) * D.page_table_index_bits,
                            D.page_table_index_bits)
            /\ pc = "returned" =>
                 /\ (D = X86 /\ v_addr = AddrX86) =>
                        Indices(level_info_vec) = <<682, 1023>>
                 /\ (D = X86_PAE /\ v_addr = AddrX86Pae) =>
                        Indices(level_info_vec) = <<170, 511, 2>>
                 /\ (D = X86_64 /\ v_addr = AddrX86_64) =>
                        Indices(level_info_vec) = <<170, 511, 31, 32>>
                 /\ (D = X86_64_5LEVEL /\ v_addr = AddrX86_64_5Level) =>
                        Indices(level_info_vec) = <<170, 511, 31, 32, 238>>

\* The 5-level lookup of the test address has returned its five indices.
C1_Witness ==
    /\ pc = "returned"
    /\ paging_impl_info = X86_64_5LEVEL
    /\ v_addr = AddrX86_64_5Level
    /\ Len(level_info_vec) = 5
    /\ ToNat(level_info_vec[5].index) = 238

\* C2: for valid inputs the returned index is below 2^index_bits, i.e. it
\* has no bit at position index_bits or above.
C2_IndexRange ==
    (ValidArgs /\ Returned) =>
        \A b \in result.val.index : b < args.index_bits

\* A valid call whose field lies beyond bit 63 returned (overflow checks
\* off) an index with its top bit set.
C2_Witness ==
    /\ ValidArgs /\ Returned
    /\ args.index_bits * (args.level - 1) + args.page_offset_bits >= U64Bits
    /\ (args.index_bits - 1) \in result.val.index

\* C3: for valid inputs the returned shift is
\* index_bits * (level - 1) + page_offset_bits; so in a lookup the element
\* of level 1 has shift page_offset_bits and each next level's shift is
\* larger by index_bits.
C3_ShiftFormula ==
    /\ (ValidArgs /\ Returned) =>
          result.val.shift =
              args.index_bits * (args.level - 1) + args.page_offset_bits
    /\ pc \in {"loop", "returned"} =>
          \A k \in 1 .. Len(level_info_vec) :
              /\ k = 1 => level_info_vec[k].shift =
                              paging_impl_info.page_offset_bits
              /\ k > 1 => level_info_vec[k].shift =
                              level_info_vec[k - 1].shift
                                  + paging_impl_info.page_table_index_bits

\* A direct call for level 3 returned the shift 2 * 9 + 12.
C3_Witness ==
    /\ ValidArgs /\ Returned
    /\ args.index_bits = 9 /\ args.page_offset_bits = 12 /\ args.level = 3
    /\ result.val.shift = 30

\* index << shift over the integers: no bit is dropped and the distance is
\* not reduced.
ShiftedIndex(index, shift) == {b + shift : b \in index}

\* C4: for valid inputs the returned relevant_part_of_addr equals
\* index << shift, and each of its bits lies in [shift, shift + index_bits).
C4_RelevantIsIndexShifted ==
    (ValidArgs /\ Returned) =>
        /\ result.val.relevant_part_of_addr =
               ShiftedIndex(result.val.index, result.val.shift)
        /\ \A b \in result.val.relevant_part_of_addr :
               /\ result.val.shift <= b
               /\ b < result.val.shift + args.index_bits

\* C5: with Bits32, two addresses that agree on their low 32 bits give the
\* same index, relevant_part_of_addr and shift, and the one panics exactly
\* when the other does.
C5_UpperHalfIgnored ==
    (args.called /\ args.addr_width = "Bits32") =>
        \A b \in Addrs :
            BitAnd(b, U32_MAX) = BitAnd(args.v_addr, U32_MAX) =>
                LET rb == calculate_page_table_index(args.index_bits,
                              args.page_offset_bits, b, args.level,
                              "Bits32", overflow_checks)
                IN  /\ rb.panicked = result.panicked
                    /\ ~result.panicked =>
                         /\ rb.val.index = result.val.index
                         /\ rb.val.relevant_part_of_addr =
                                result.val.relevant_part_of_addr
                         /\ rb.val.shift = result.val.shift

\* A Bits32 call on an address with a non-zero upper half returned a
\* non-zero index, and another address of the inputs has the same lower
\* half.
C5_Witness ==
    /\ ValidArgs /\ Returned
    /\ args.addr_width = "Bits32"
    /\ args.v_addr \ U32_MAX # {}
    /\ result.val.index # {}
    /\ \E b \in Addrs : /\ b # args.v_addr
                        /\ BitAnd(b, U32_MAX) = BitAnd(args.v_addr, U32_MAX)

\* C6: calc_page_table_lookup_meta_info returns exactly `levels` elements
\* in ascending level order: the element at position i (counted from 0)
\* has level i + 1.
C6_OneElementPerLevel ==
    /\ pc \in {"loop", "returned"} =>
          /\ Len(level_info_vec) = level
          /\ \A i \in 0 .. (Len(level_info_vec) - 1) :
                 level_info_vec[i + 1].level = i + 1
    /\ pc = "returned" => Len(level_info_vec) = paging_impl_info.levels

\* The lookup for x86 with PAE has returned three elements.
C6_Witness ==
    /\ pc = "returned"
    /\ paging_impl_info = X86_PAE
    /\ Len(level_info_vec) = 3
    /\ level_info_vec[3].level = 3

\* The messages of the three assertions of the calculator.
PreconditionFailures ==
    {"assertion failed: index_bits > 0",
     "assertion failed: page_offset_bits > 0",
     "assertion failed: level > 0"}

\* C7: a call with index_bits = 0, page_offset_bits = 0 or level = 0 panics
\* with the failed assertion and returns no PageTableLookupMetaInfo.
C7_PreconditionsAsserted ==
    (/\ args.called
     /\ \/ args.index_bits = 0
        \/ args.page_offset_bits = 0
        \/ args.level = 0) =>
        /\ result.panicked
        /\ result.msg \in PreconditionFailures

\* A call with level 0 and the other arguments valid has panicked.
C7_Witness ==
    /\ args.called
    /\ args.level = 0 /\ args.index_bits = 9 /\ args.page_offset_bits = 12
    /\ result.panicked
    /\ result.msg = "assertion failed: level > 0"

\* The descriptor the program works with has been looked up.
Selected == pc \in {"loop", "returned", "panicked", "printed"}

\* The bits the levels and the page offset take together.
TotalBits(D) == D.page_table_index_bits * D.levels + D.page_offset_bits

\* The shift of the highest level.
TopShift(D) == D.page_table_index_bits * (D.levels - 1) + D.page_offset_bits

\* C8 as stated: every catalog entry has
\* page_table_index_bits * levels + page_offset_bits <= address width.
C8_TotalBitsWithinWidth ==
    Selected =>
        TotalBits(paging_impl_info) <=
            AddrWidthBits(paging_impl_info.addr_width)

\* C8, amended: X86, X86_64 and X86_64_5LEVEL have
\* page_table_index_bits * levels + page_offset_bits <= address width;
\* X86_PAE has 9 * 3 + 12 = 39 > 32, and only the field of its highest
\* level starts below the width (9 * 2 + 12 = 30 < 32), as it does for
\* every entry.
C8_TotalBitsWithinWidthButPae ==
    Selected =>
        LET D == paging_impl_info
            width == AddrWidthBits(D.addr_width)
        IN  /\ arch # [family |-> "X86", pae |-> TRUE] =>
                   TotalBits(D) <= width
            /\ arch = [family |-> "X86", pae |-> TRUE] =>
                   TotalBits(D) = 39 /\ width = 32
            /\ TopShift(D) < width

\* The lookup for x86 with PAE is done and its three levels and the page
\* offset take more than 32 bits.
C8_Witness ==
    /\ pc = "returned"
    /\ arch = [family |-> "X86", pae |-> TRUE]
    /\ TotalBits(paging_impl_info) >
           AddrWidthBits(paging_impl_info.addr_width)

\* The five numbers of a descriptor.
Numbers(D) ==
    <<D.levels, AddrWidthBits(D.addr_width), D.page_table_index_bits,
      D.page_offset_bits, D.page_table_entry_size>>

\* C9: the catalog constants are X86 = (levels 2, 32-bit, index bits 10,
\* page-offset bits 12, entry size 4), X86_PAE = (3, 32, 9, 12, 8),
\* X86_64 = (4, 64, 9, 12, 8), X86_64_5LEVEL = (5, 64, 9, 12, 8), and the
\* descriptor the program works with keeps these values in every step.
C9_CatalogValues ==
    /\ Numbers(X86) = <<2, 32, 10, 12, 4>>
    /\ Numbers(X86_PAE) = <<3, 32, 9, 12, 8>>
    /\ Numbers(X86_64) = <<4, 64, 9, 12, 8>>
    /\ Numbers(X86_64_5LEVEL) = <<5, 64, 9, 12, 8>>
    /\ Selected =>
          Numbers(paging_impl_info) =
              IF arch.family = "X86"
              THEN (IF arch.pae THEN <<3, 32, 9, 12, 8>>
                    ELSE <<2, 32, 10, 12, 4>>)
              ELSE (IF arch.five_level THEN <<5, 64, 9, 12, 8>>
                    ELSE <<4, 64, 9, 12, 8>>)

\* The lookup for x86 with PAE is done and its descriptor still has 64-bit
\* entries and three levels.
C9_Witness ==
    /\ pc = "returned"
    /\ arch = [family |-> "X86", pae |-> TRUE]
    /\ paging_impl_info.page_table_entry_size = 8
    /\ paging_impl_info.levels = 3

\* C10: from_arch maps X86{pae=false} to X86, X86{pae=true} to X86_PAE,
\* X86_64{five_level=false} to X86_64 and X86_64{five_level=true} to
\* X86_64_5LEVEL; different (family, flag) pairs give different
\* descriptors, and the descriptor in use is the one of the chosen pair.
C10_FromArchTable ==
    /\ from_arch([family |-> "X86", pae |-> FALSE]) = X86
    /\ from_arch([family |-> "X86", pae |-> TRUE]) = X86_PAE
    /\ from_arch([family |-> "X86_64", five_level |-> FALSE]) = X86_64
    /\ from_arch([family |-> "X86_64", five_level |-> TRUE]) = X86_64_5LEVEL
    /\ \A a1, a2 \in Architecture :
           a1 # a2 => from_arch(a1) # from_arch(a2)
    /\ Selected =>
          /\ paging_impl_info \in {X86, X86_PAE, X86_64, X86_64_5LEVEL}
          /\ paging_impl_info = from_arch(arch)

\* The 5-level descriptor has been looked up for X86_64{five_level=true}.
C10_Witness ==
    /\ pc = "loop"
    /\ arch = [family |-> "X86_64", five_level |-> TRUE]
    /\ paging_impl_info = X86_64_5LEVEL
    /\ level = 0

\* C11: for every n in 0..=64 the mask construction yields 2^n - 1, i.e.
\* exactly the n low bits: all 64 bits for n = 64, none for n = 0; and
\* num_to_bitmask rejects n > 64 with its assertion.  create_mask, which
\* the calculator calls, yields the same mask for n in 0..=64.
C11_MaskIsLowOnes ==
    mask.called =>
        IF mask.val <= 64
        THEN /\ ~mask.result.panicked
             /\ Cardinality(mask.result.val) = mask.val
             /\ \A b \in mask.result.val : b < mask.val
             /\ mask.val = 64 => mask.result.val = BitPositions
             /\ mask.val = 0 => mask.result.val = {}
             /\ create_mask(mask.val) = mask.result.val
        ELSE /\ mask.result.panicked
             /\ mask.result.msg = "The value must be between 0..=64"

\* num_to_bitmask(64) has returned a mask with bit 63 and bit 0 set.
C11_Witness ==
    /\ mask.called
    /\ mask.val = 64
    /\ ~mask.result.panicked
    /\ {0, 63} \subseteq mask.result.val

\* The address the calculator works on: the low 32 bits for Bits32.
ClampedArg ==
    IF args.addr_width = "Bits32" THEN BitAnd(args.v_addr, U32_MAX)
    ELSE args.v_addr

\* The shift of the direct call, as a number.
ArgShift == args.index_bits * (args.level - 1) + args.page_offset_bits

\* C12: for valid inputs with shift + index_bits > 64 (shift >= 64
\* included), the right shift of the address and the left shift of the mask
\* neither panic nor take the distance modulo 64: the call returns, index is
\* the address shifted by the full distance and masked, and
\* relevant_part_of_addr is the address masked by the mask shifted by the
\* full distance.
C12_ShiftNeitherPanicsNorWraps ==
    (ValidArgs /\ ArgShift + args.index_bits > U64Bits) =>
        /\ ~result.panicked
        /\ result.val.index =
               BitAnd(Shr(ClampedArg, ArgShift), create_mask(args.index_bits))
        /\ result.val.relevant_part_of_addr =
               BitAnd(ClampedArg, Shl(create_mask(args.index_bits), ArgShift))

\* C13: for every shipped descriptor and every address, the lookup calls
\* the calculator only with index_bits > 0, page_offset_bits > 0, a level
\* in 1..=levels and a shift below 64; no call of the lookup panics, with
\* or without overflow checks.
C13_CatalogCallsValid ==
    Selected =>
        LET D == paging_impl_info
        IN  /\ pc # "panicked"
            /\ D.page_table_index_bits > 0
            /\ D.page_offset_bits > 0
            /\ \A i \in 1 .. Len(calls) :
                   /\ calls[i] \in 1 .. D.levels
                   /\ D.page_table_index_bits * (calls[i] - 1)
                          + D.page_offset_bits < U64Bits

\* The five-level lookup has returned in a build with overflow checks
\* after calling the calculator for levels 1 to 5, the last with shift 48.
C13_Witness ==
    /\ pc = "returned"
    /\ overflow_checks
    /\ paging_impl_info = X86_64_5LEVEL
    /\ calls = <<1, 2, 3, 4, 5>>
    /\ level_info_vec[5].shift = 48

\* C15: every PageTableLookupMetaInfo carries in v_addr the caller's
\* address, unclamped also for Bits32 with non-zero upper 32 bits, and in
\* level the requested level; all elements of one lookup have the same
\* v_addr, the address of the lookup.
C15_OriginalAddressKept ==
    /\ Returned =>
          /\ result.val.v_addr = args.v_addr
          /\ result.val.level = args.level
    /\ pc \in {"loop", "returned"} =>
          \A i \in 1 .. Len(level_info_vec) :
              /\ level_info_vec[i].v_addr = v_addr
              /\ level_info_vec[i].level = calls[i]

\* The x86 lookup (32 bits wide) of an address with a non-zero upper half
\* has returned, and its elements hold the address with the upper half.
C15_Witness ==
    /\ pc = "returned"
    /\ paging_impl_info = X86
    /\ v_addr \ U32_MAX # {}
    /\ Len(level_info_vec) = 2
    /\ level_info_vec[1].v_addr \ U32_MAX # {}
    /\ level_info_vec[1].index # {}

\* The lookup of a thread run alone: from_arch, then
\* calc_page_table_lookup_meta_info.
Alone(ar, a) ==
    calc_page_table_lookup_meta_info(from_arch(ar), a, overflow_checks)

\* A step of one of the two lookups.
CoreStep == pc' # pc \/ lookupVars' # lookupVars \/ other' # other

\* C16: the core operations neither read nor write USE_ANSI or any other
\* shared state: in every interleaving of two threads' lookups with stores
\* to the flag, each lookup uses the descriptor from_arch gives for its own
\* architecture, does not panic, builds level by level the vector it gives
\* when run alone and returns that vector; and no step of a lookup changes
\* the flag.
C16_CoreIgnoresSharedState ==
    /\ [](Selected =>
            /\ paging_impl_info = from_arch(arch)
            /\ pc # "panicked"
            /\ level_info_vec =
                   SubSeq(Alone(arch, v_addr).val, 1, Len(level_info_vec))
            /\ pc = "returned" => Ok(level_info_vec) = Alone(arch, v_addr))
    /\ [](other.pc # "idle" =>
            /\ other.paging_impl_info = from_arch(other.arch)
            /\ other.pc # "panicked"
            /\ other.level_info_vec =
                   SubSeq(Alone(other.arch, other.v_addr).val, 1,
                          Len(other.level_info_vec))
            /\ other.pc = "returned" =>
                   Ok(other.level_info_vec) = Alone(other.arch, other.v_addr))
    /\ [][CoreStep => use_ansi' = use_ansi]_vars

\* Both lookups are under way at once, on different architectures, with
\* the flag stored meanwhile: one has returned its four elements while the
\* other has made two of its three calls.
C16_Witness ==
    /\ use_ansi
    /\ pc = "loop" /\ paging_impl_info = X86_PAE /\ Len(level_info_vec) = 2
    /\ other.pc = "returned" /\ other.paging_impl_info = X86_64
    /\ Len(other.level_info_vec) = 4
    /\ level_info_vec[1].index # other.level_info_vec[1].index

\* The lookup has ended, by returning its vector or by a panic.
Ended == pc \in {"returned", "panicked"}

\* The shift of the call for level l on descriptor D.
LevelShift(D, l) == D.page_table_index_bits * (l - 1) + D.page_offset_bits

\* C17 as stated: for every descriptor and address the lookup terminates
\* by returning after exactly `levels` calls of the calculator, one per
\* level and each level once; with levels = 0 it returns the empty
\* sequence without a call.
C17_ReturnsAfterLevelsCalls ==
    Selected ~>
        /\ pc = "returned"
        /\ Len(calls) = paging_impl_info.levels
        /\ calls = [i \in 1 .. Len(calls) |-> i]
        /\ paging_impl_info.levels = 0 => level_info_vec = <<>>

\* C17, amended: for every descriptor and address the lookup ends; it
\* calls the calculator for the levels 1, 2, ... in order, each at most
\* once and never beyond `levels`; it returns after exactly `levels` calls
\* with one element per call unless a call panics, and then it ends with
\* that panic and makes no further call.  A call panics exactly if
\* page_table_index_bits or page_offset_bits is 0, or, in a build with
\* overflow checks, if the level's shift is 64 or more.  With levels = 0 it
\* returns the empty sequence without a call.
C17_EndsPerLevelUnlessPanic ==
    /\ [](Selected =>
            LET D == paging_impl_info
                n == Len(calls)
            IN  /\ calls = [i \in 1 .. n |-> i]
                /\ n <= D.levels
                /\ pc = "returned" =>
                       n = D.levels /\ Len(level_info_vec) = D.levels
                /\ pc = "loop" => Len(level_info_vec) = n
                /\ pc = "panicked" =>
                       /\ Len(level_info_vec) = n - 1
                       /\ \/ D.page_table_index_bits = 0
                          \/ D.page_offset_bits = 0
                          \/ overflow_checks /\ LevelShift(D, n) >= U64Bits
                /\ (/\ n > 0
                    /\ \/ D.page_table_index_bits = 0
                       \/ D.page_offset_bits = 0
                       \/ overflow_checks /\ LevelShift(D, n) >= U64Bits)
                        => pc = "panicked"
                /\ D.levels = 0 =>
                       calls = <<>> /\ level_info_vec = <<>>
                           /\ pc # "panicked")
    /\ Selected ~> Ended

\* A seven-level lookup with 9 index bits and 12 offset bits has ended in
\* a build with overflow checks with the panic of its seventh call, after
\* six elements.
C17_Witness ==
    /\ pc = "panicked"
    /\ overflow_checks
    /\ paging_impl_info.levels = 7
    /\ paging_impl_info.page_table_index_bits = 9
    /\ paging_impl_info.page_offset_bits = 12
    /\ calls = <<1, 2, 3, 4, 5, 6, 7>>
    /\ Len(level_info_vec) = 6

\* C18: for X86_PAE and every address the level-3 index is in 0..=3 and is
\* made of the address bits 30 and 31 only, so its entry offset index * 8
\* is below 32 bytes; the level-1 and level-2 indices are in 0..=511.
C18_PaeTopLevelFourEntries ==
    (pc \in {"loop", "returned"} /\ paging_impl_info = X86_PAE) =>
        \A k \in 1 .. Len(level_info_vec) :
            LET index == level_info_vec[k].index
            IN  IF k = 3
                THEN /\ ToNat(index) \in 0 .. 3
                     /\ index = {b - 30 : b \in v_addr \cap {30, 31}}
                     /\ ToNat(index) * paging_impl_info.page_table_entry_size
                            < 32
                ELSE ToNat(index) \in 0 .. 511

\* The X86_PAE lookup of an address with ones above bit 31 has returned
\* the largest indices: 511 at the levels 1 and 2, and 3 at level 3.
C18_Witness ==
    /\ pc = "returned"
    /\ paging_impl_info = X86_PAE
    /\ v_addr \ U32_MAX # {}
    /\ Indices(level_info_vec) = <<511, 511, 3>>

RECURSIVE HexValue(_)
\* The number a sequence of hexadecimal digits, highest first, stands for.
HexValue(ds) ==
    IF ds = <<>> THEN 0
    ELSE 16 * HexValue(SubSeq(ds, 1, Len(ds) - 1)) + ds[Len(ds)]

\* The positions of the entry offset lines in the output.
OffsetLines == {i \in 1 .. Len(out) : out[i].line = "entry offset"}

\* C19: for every shipped descriptor, level and address the printed entry
\* offset is index * page_table_entry_size, lies strictly below the page
\* size 2^page_offset_bits = 4096 (far from the 64-bit range; it takes the
\* four hexadecimal digits of the format), and each catalog entry has
\* 2^page_table_index_bits * page_table_entry_size = 2^page_offset_bits.
C19_EntryOffsetWithinPage ==
    Selected =>
        LET D == paging_impl_info
        IN  /\ Pow2(D.page_offset_bits) = 4096
            /\ Pow2(D.page_table_index_bits) * D.page_table_entry_size
                   = Pow2(D.page_offset_bits)
            /\ pc = "printed" =>
                   /\ Cardinality(OffsetLines) = D.levels
                   /\ \A i \in OffsetLines :
                          LET offset == HexValue(out[i].digits)
                              info == level_info_vec[out[i].level]
                          IN  /\ offset = ToNat(info.index)
                                              * D.page_table_entry_size
                              /\ offset < Pow2(D.page_offset_bits)
                              /\ Len(out[i].digits) = 4

\* The x86 lookup has printed the entry offset 0x0ffc (4092 = 1023 * 4) for
\* level 2.
C19_Witness ==
    /\ pc = "printed"
    /\ paging_impl_info = X86
    /\ \E i \in OffsetLines :
           /\ out[i].level = 2
           /\ out[i].digits = <<0, 15, 15, 12>>
           /\ ToNat(level_info_vec[2].index) = 1023

\* C20: u64::from(VirtualAddress::from(x)) = x for every 64-bit x, and
\* u32::from(v) is the low 32 bits of v with the upper 32 bits discarded,
\* which is the clamp of the calculator for Bits32: on the 32-bit catalog
\* entries the calculator gives for x with Bits32 the index, relevant part
\* and shift it gives with Bits64 for the zero-extended u32::from(v).
C20_ConversionsClampLikeCalculator ==
    conv.called =>
        /\ conv.as_u64 = conv.value
        /\ conv.as_u32 = {b \in conv.value : b < 32}
        /\ \A D \in {X86, X86_PAE} : \A l \in 1 .. D.levels :
               LET clamped == calculate_page_table_index(
                                  D.page_table_index_bits, D.page_offset_bits,
                                  conv.value, l, "Bits32", overflow_checks)
                   wide == calculate_page_table_index(
                               D.page_table_index_bits, D.page_offset_bits,
                               u64_from_u32(conv.as_u32), l, "Bits64",
                               overflow_checks)
               IN  /\ ~clamped.panicked /\ ~wide.panicked
                   /\ clamped.val.index = wide.val.index
                   /\ clamped.val.relevant_part_of_addr =
                          wide.val.relevant_part_of_addr
                   /\ clamped.val.shift = wide.val.shift

\* 0xdead_beef_1337_1337 has been converted: back to itself as u64 and to
\* 0x1337_1337 as u32.
C20_Witness ==
    /\ conv.called
    /\ conv.value = AddrDeadBeef
    /\ conv.as_u64 = AddrDeadBeef
    /\ conv.as_u32 = FromBin(<<0,0,0,1, 0,0,1,1, 0,0,1,1, 0,1,1,1,
                               0,0,0,1, 0,0,1,1, 0,0,1,1, 0,1,1,1>>)

\* The digits 0-9 and a-f.
IsHexDigit(c) ==
    c \in {"0", "1", "2", "3", "4", "5", "6", "7", "8", "9",
           "a", "b", "c", "d", "e", "f"}

\* The text is a hexadecimal number: one digit or more, digits only.
IsHexNumber(t) == t # <<>> /\ \A i \in 1 .. Len(t) : IsHexDigit(t[i])

\* The 64-bit value of a hexadecimal number: digit i from the right gives
\* the bits 4i .. 4i+3.
HexBits(t) ==
    UNION {{4 * (Len(t) - i) + b : b \in DigitBits(to_digit(t[i]))} :
              i \in 1 .. Len(t)}

\* The text with an underscore put in after its first i characters.
WithUnderscore(t, i) ==
    SubSeq(t, 1, i) \o <<"_">> \o SubSeq(t, i + 1, Len(t))

\* Texts that differ from t only in case, in one underscore or in
\* surrounding blanks.
Variants(t) ==
    {to_lowercase(t), <<" ">> \o t, t \o <<" ">>}
        \cup {WithUnderscore(t, i) : i \in 0 .. Len(t)}

\* C21: from_str trims the text, lower-cases it and removes every
\* underscore; without the prefix "0x" the result is Err(MissingPrefix);
\* with it, the result is Ok(value) if the rest is a hexadecimal number
\* within the u64 range and Err(ParseIntError) otherwise; and texts that
\* differ only in case, underscores or surrounding whitespace give the
\* same result.
C21_FromStrAcceptsPrefixedHex ==
    parsed.called =>
        LET normalised == replace_underscores(to_lowercase(trim(parsed.s)))
            rest == SubSeq(normalised, 3, Len(normalised))
        IN  /\ IF ~starts_with(normalised, <<"0", "x">>)
               THEN parsed.result = ResultErr("MissingPrefix")
               ELSE IF IsHexNumber(rest)
                       /\ \A b \in HexBits(rest) : b < 64
               THEN parsed.result = ResultOk(<<HexBits(rest)>>)
               ELSE parsed.result = ResultErr("ParseIntError")
            /\ \A t \in Variants(parsed.s) : from_str(t) = parsed.result

\* The smaller of two numbers.
Min(m, n) == IF m < n THEN m ELSE n

\* The bitwise OR of the relevant parts of all elements of the vector.
AllRelevantParts(vec) ==
    UNION {vec[k].relevant_part_of_addr : k \in 1 .. Len(vec)}

\* C22: for every shipped descriptor and address, the relevant parts of
\* the levels of one lookup are pairwise disjoint and adjacent (the field
\* of level k + 1 starts where the field of level k ends), and their OR
\* together with the low page_offset_bits bits of the address is the
\* clamped address restricted to its low
\* min(address width, page_offset_bits + levels * index_bits) bits.
C22_RelevantPartsTileAddress ==
    (pc \in {"returned", "printed"}) =>
        LET D == paging_impl_info
            vec == level_info_vec
            ib == D.page_table_index_bits
        IN  /\ \A j, k \in 1 .. Len(vec) :
                   j # k => vec[j].relevant_part_of_addr
                                \cap vec[k].relevant_part_of_addr = {}
            /\ \A k \in 1 .. Len(vec) :
                   /\ \A b \in vec[k].relevant_part_of_addr :
                          vec[k].shift <= b /\ b < vec[k].shift + ib
                   /\ k < Len(vec) => vec[k + 1].shift = vec[k].shift + ib
            /\ vec[1].shift = D.page_offset_bits
            /\ AllRelevantParts(vec)
                   \cup {b \in v_addr : b < D.page_offset_bits}
                 = {b \in Clamp(v_addr, D) :
                       b < Min(AddrWidthBits(D.addr_width),
                               D.page_offset_bits + D.levels * ib)}

\* The X86_PAE lookup of the address of all ones has returned: the parts
\* are the bits 12-20, 21-29 and 30-31.
C22_Witness ==
    /\ pc = "returned"
    /\ paging_impl_info = X86_PAE
    /\ v_addr = BitPositions
    /\ level_info_vec[1].relevant_part_of_addr = 12 .. 20
    /\ level_info_vec[2].relevant_part_of_addr = 21 .. 29
    /\ level_info_vec[3].relevant_part_of_addr = {30, 31}

\* The legacy outcome lr and the outcome nr of the parameterised
\* calculator are the same: both panic, or both return and the tuple holds
\* the index, relevant part and shift of the PageTableLookupMetaInfo.
SameOutcome(lr, nr) ==
    /\ lr.panicked = nr.panicked
    /\ ~lr.panicked =>
           lr.val = <<nr.val.index, nr.val.relevant_part_of_addr,
                      nr.val.shift>>

\* The parameterised calculator on the arguments of the legacy call.
Parameterised(w) ==
    calculate_page_table_index(legacy.index_bits, legacy.page_offset_bits,
                               legacy.addr, legacy.level, w, overflow_checks)

\* The legacy call is one of the 32-bit calls of print_paging_info:
\* <10, 12> at level 1 or 2.
Legacy32BitCall ==
    /\ legacy.index_bits = 10
    /\ legacy.page_offset_bits = 12
    /\ legacy.level \in {1, 2}

\* C23: for every instantiation <INDEX_BITS, PAGE_OFFSET_BITS> of the
\* legacy calculator in main.rs, every address and every level >= 1 the
\* legacy calculator has the outcome of the parameterised calculator with
\* Bits64: the same index, relevant bits and shift, and where one of them
\* panics (a shift by 64 or more in a build with overflow checks) the
\* other does as well; and the 32-bit calls <10, 12> at the levels 1 and 2
\* on the untruncated address have the outcome of the parameterised
\* calculator with Bits32.
C23_LegacyAgrees ==
    (legacy.called /\ legacy.level >= 1) =>
        /\ SameOutcome(legacy.result, Parameterised("Bits64"))
        /\ legacy.result.panicked =>
               legacy.result.msg = Parameterised("Bits64").msg
        /\ Legacy32BitCall =>
               /\ ~legacy.result.panicked
               /\ SameOutcome(legacy.result, Parameterised("Bits32"))

\* The legacy 32-bit call for level 2 on an address with a non-zero upper
\* half has returned a non-zero index and the shift 22.
C23_Witness ==
    /\ legacy.called
    /\ Legacy32BitCall /\ legacy.level = 2
    /\ legacy.addr \ U32_MAX # {}
    /\ ~legacy.result.panicked
    /\ legacy.result.val[1] # {}
    /\ legacy.result.val[3] = 22

\* The positions of the bit lines in the output.
BitLinePositions == {i \in 1 .. Len(out) : out[i].line = "bits"}

\* The 64-bit value a sequence of binary digits, highest first, stands for.
BinValue(ds) == {Len(ds) - i : i \in {j \in 1 .. Len(ds) : ds[j] = 1}}

\* C24: for every shipped descriptor, level and address the three parts
\* of the line of print_relevant_bits_highlighted add up to the address
\* width: zeroes_fill_left_count + page_index_highlight_bits_count +
\* zeroes_fill_right_count = 32 or 64 with no count below zero and no
\* panic; the highlight has index_bits digits (2 for level 3 of X86_PAE),
\* which are the digits of the level's index, so the index is below
\* 2^page_index_highlight_bits_count and the string has exactly
\* address-width digits.
C24_BitLineHasWidthDigits ==
    Selected =>
        /\ pc # "panicked"
        /\ pc = "printed" =>
               LET D == paging_impl_info
               IN  /\ Cardinality(BitLinePositions) = D.levels
                   /\ \A i \in BitLinePositions :
                          LET ln == out[i]
                              digits == ln.highlighted_index.text
                              info == level_info_vec[ln.level]
                          IN  /\ ln.zeroes_left_fill >= 0
                              /\ ln.zeroes_right_fill >= 0
                              /\ ln.zeroes_left_fill + Len(digits)
                                     + ln.zeroes_right_fill
                                   = AddrWidthBits(D.addr_width)
                              /\ Len(digits) =
                                     IF D = X86_PAE /\ ln.level = 3 THEN 2
                                     ELSE D.page_table_index_bits
                              /\ BinValue(digits) = info.index
                              /\ ToNat(info.index) < Pow2(Len(digits))
                              /\ ln.zeroes_right_fill = info.shift

\* The X86_PAE lookup has printed the line of level 3 with no zero on the
\* left, the two digits 11 and 30 zeroes on the right.
C24_Witness ==
    /\ pc = "printed"
    /\ paging_impl_info = X86_PAE
    /\ \E i \in BitLinePositions :
           /\ out[i].level = 3
           /\ out[i].zeroes_left_fill = 0
           /\ out[i].highlighted_index.text = <<1, 1>>
           /\ out[i].zeroes_right_fill = 30

\* What print wrote after the three lines of the header.
Listings == SubSeq(out, 4, Len(out))

\* C25: print emits the lines of the levels in descending order, level N
\* first and level 1 last, each level once, in the bit listing and then in
\* the entry listing (index line, then offset line, per level), and the
\* hints are attached to the lines of the first printed level, N, only.
C25_LevelsPrintedDescending ==
    pc = "printed" =>
        LET N == paging_impl_info.levels
            body == Listings
        IN  /\ Len(body) = 3 * N
            /\ \A i \in 1 .. N :
                   /\ body[i].line = "bits"
                   /\ body[i].level = N + 1 - i
                   /\ body[N + 2 * i - 1].line = "entry index"
                   /\ body[N + 2 * i - 1].level = N + 1 - i
                   /\ body[N + 2 * i].line = "entry offset"
                   /\ body[N + 2 * i].level = N + 1 - i
                   /\ (body[N + 2 * i - 1].info # <<>>) <=> (i = 1)
                   /\ (body[N + 2 * i].info # <<>>) <=> (i = 1)
            /\ body[N + 1].info = <<paint_hint("(number of entry)")>>
            /\ body[N + 2].info =
                   <<paint_hint("(offset into the page table for that entry)")>>

\* The five-level lookup has been printed: the bit listing runs from level
\* 5 to level 1, the entry listing starts with level 5 and its hint, and
\* the lines of level 4 have no hint.
C25_Witness ==
    /\ pc = "printed"
    /\ paging_impl_info = X86_64_5LEVEL
    /\ Listings[1].level = 5 /\ Listings[5].level = 1
    /\ Listings[6].line = "entry index" /\ Listings[6].level = 5
    /\ Listings[6].info # <<>>
    /\ Listings[8].level = 4 /\ Listings[8].info = <<>>
    /\ Listings[15].level = 1

=============================================================================
